---- MODULE Spec2Model ----
(***************************************************************************)
(* Model of the configuration resolver of fixme (fixme/cli.py and          *)
(* fixme/__main__.py): the chain-of-responsibility handlers and the        *)
(* duration parser.                                                        *)
(***************************************************************************)
EXTENDS Integers, Sequences, FiniteSets, TLC

(* ------------------------------------------------------------------ *)
(* Bounds                                                              *)
(* ------------------------------------------------------------------ *)
MaxChain == 2
MaxLen == 4

(* ------------------------------------------------------------------ *)
(* Python values                                                       *)
(* ------------------------------------------------------------------ *)
None == [t |-> "None"]
PyStr(s) == [t |-> "str", s |-> s]
PyInt(n) == [t |-> "int", n |-> n]

\* bool(value): None, "" and 0 are falsy
Truthy(val) ==
    CASE val.t = "None" -> FALSE
      [] val.t = "str" -> val.s # ""
      [] val.t = "int" -> val.n # 0

Keys == {"FIXME_NAME", "APP_VERBOSITY"}

EmptyDict == [k \in {} |-> None]
Dict1(k, v) == [x \in {k} |-> v]

\* a merge in which the entries already present are kept
DictMerge_first_wins(a, b) ==
    [k \in (DOMAIN a) \cup (DOMAIN b) |-> IF k \in DOMAIN a THEN a[k] ELSE b[k]]

\* {**a, **b}: the entries of b replace those of a
DictMerge(a, b) ==
    [k \in (DOMAIN a) \cup (DOMAIN b) |-> IF k \in DOMAIN b THEN b[k] ELSE a[k]]

(* ------------------------------------------------------------------ *)
(* File contents and the two parsers applied to them                   *)
(* ------------------------------------------------------------------ *)
JsonSomething == "{\"APP_VERBOSITY\": \"something\"}"
JsonNull == "{\"APP_VERBOSITY\": null}"
JsonEmptyObject == "{}"
YamlCritical == "---\nAPP_VERBOSITY: 'critical'\n"
YamlName == "---\nFIXME_NAME: 'other'\n"

\* json.loads(text): the parsed document, or a JSONDecodeError for any
\* text that is not a JSON document (the empty text included)
JsonLoads(text) ==
    CASE text = JsonSomething ->
            [ok |-> TRUE, doc |-> Dict1("APP_VERBOSITY", PyStr("something"))]
      [] text = JsonNull ->
            [ok |-> TRUE, doc |-> Dict1("APP_VERBOSITY", None)]
      [] text = JsonEmptyObject ->
            [ok |-> TRUE, doc |-> EmptyDict]
      [] OTHER -> [ok |-> FALSE, doc |-> EmptyDict]

\* yaml.safe_load(text), for the texts the backing file of a DictHandler
\* holds here (YamlFileChoices): a document with top-level entries
YamlSafeLoad(text) ==
    CASE text = YamlCritical -> Dict1("APP_VERBOSITY", PyStr("critical"))
      [] text = YamlName -> Dict1("FIXME_NAME", PyStr("other"))
      [] OTHER -> EmptyDict

NoFile == [exists |-> FALSE, content |-> ""]
File(text) == [exists |-> TRUE, content |-> text]

JsonPath == "myconfig.json"
YamlPath == "myconfig.yaml"
YamlPath2 == "other.yaml"
Paths == {JsonPath, YamlPath, YamlPath2}

\* the content a mount hook provisions at the handler's path
MountedText == JsonSomething

(* ------------------------------------------------------------------ *)
(* Handlers                                                            *)
(* ------------------------------------------------------------------ *)
\* the mapping objects a caller can hand to DictHandler.__init__: the one
\* default object of the data_dict parameter, and two mappings of the caller
SharedDefault == "data_dict={}"
ObjectIds == {SharedDefault, "default_config", "verbosity"}

\* a handler object; arg_dict is the data_dict argument DictHandler.__init__
\* was given, kept to state what the constructor did with it, and dict_id
\* names the object that argument was
Node(kind, dv, ad, dd, fp, mh, id) ==
    [kind |-> kind, default_value |-> dv, arg_dict |-> ad, data_dict |-> dd,
     file_path |-> fp, mount_hook |-> mh, dict_id |-> id]

DefaultHandler(default_value) == Node("Default", default_value, EmptyDict, EmptyDict, "", "None", "")
ArgHandler == Node("Arg", None, EmptyDict, EmptyDict, "", "None", "")
EnvHandler == Node("Env", None, EmptyDict, EmptyDict, "", "None", "")
FileHandler(file_path, mount_hook) == Node("File", None, EmptyDict, EmptyDict, file_path, mount_hook, "")
JSONFileHandler(file_path, mount_hook) == Node("JSON", None, EmptyDict, EmptyDict, file_path, mount_hook, "")

VARIABLES
    chain,      \* the handlers, head first; chain[i+1] is chain[i]._next_handler
    args,       \* the argparse Namespace given to ArgHandler
    environ,    \* os.environ
    fs,         \* the file system: path -> file
    fs0,        \* the file system as it was when the last call began
    heap,       \* the mapping objects: object -> its entries
    phase,      \* "build" while the chain is constructed, "done" after a call
    key,        \* the key of the last handle_request on the head
    result,     \* what that call returned or raised
    calls,      \* the nodes whose handle_request ran during that call, in order
    hooks,      \* the nodes whose mount hook ran during that call, in order
    time_str,   \* the input of the duration parser
    dur_cli,    \* the outcome of fixme.cli.duration_in_seconds(time_str)
    dur_main    \* the outcome of fixme.__main__.duration_in_seconds(time_str)

vars == <<chain, args, environ, fs, fs0, heap, phase, key, result, calls, hooks,
          time_str, dur_cli, dur_main>>
chainVars == <<chain, args, environ, fs, fs0, heap, phase, key, result, calls, hooks>>
durVars == <<time_str, dur_cli, dur_main>>

(* ------------------------------------------------------------------ *)
(* handle_request                                                      *)
(* ------------------------------------------------------------------ *)
\* st is the running state of one call: the file system, the nodes
\* invoked and the hooks run so far
Ret(v, st) == [t |-> "ret", v |-> v, st |-> st]
Raise(e, st) == [t |-> "raise", v |-> PyStr(e), st |-> st]

Start(files) == [fs |-> files, calls |-> <<>>, hooks |-> <<>>]

Enter(i, st) == [st EXCEPT !.calls = Append(@, i)]

RECURSIVE handle_request(_, _, _, _, _, _)

\* Handler.get_from_next_handler
get_from_next_handler(ch, i, k, a, e, st) ==
    IF i < Len(ch)
    THEN handle_request(ch, i + 1, k, a, e, st)
    ELSE Ret(None, st)

\* the configured hook, run at most where FileHandler.handle_request runs it
RunMountHook(node, i, st) ==
    LET st1 == [st EXCEPT !.hooks = Append(@, i)] IN
    CASE node.mount_hook = "mount" ->
            Ret(None, [st1 EXCEPT !.fs[node.file_path] = File(MountedText)])
      [] node.mount_hook = "noop" -> Ret(None, st1)
      [] node.mount_hook = "fail" -> Raise("OSError", st1)
      [] node.mount_hook = "mount_fail" ->
            Raise("OSError", [st1 EXCEPT !.fs[node.file_path] = File(MountedText)])

\* a FileHandler that runs the hook but does not look at the file again
FileHandler_handle_request_no_recheck(ch, i, k, a, e, st) ==
    LET node == ch[i] IN
    IF st.fs[node.file_path].exists
    THEN Ret(PyStr(st.fs[node.file_path].content), st)
    ELSE LET mounted == IF node.mount_hook # "None"
                        THEN RunMountHook(node, i, st)
                        ELSE Ret(None, st)
         IN  IF mounted.t = "raise" THEN mounted
             ELSE get_from_next_handler(ch, i, k, a, e, mounted.st)

\* a FileHandler that swallows a failure of the hook and goes on to the
\* existence check
FileHandler_handle_request_swallow(ch, i, k, a, e, st) ==
    LET node == ch[i]
        mounted ==
            IF node.mount_hook # "None" /\ ~st.fs[node.file_path].exists
            THEN RunMountHook(node, i, st)
            ELSE Ret(None, st)
    IN  IF mounted.st.fs[node.file_path].exists
        THEN Ret(PyStr(mounted.st.fs[node.file_path].content), mounted.st)
        ELSE get_from_next_handler(ch, i, k, a, e, mounted.st)

\* FileHandler.handle_request
FileHandler_handle_request(ch, i, k, a, e, st) ==
    LET node == ch[i]
        mounted ==
            IF node.mount_hook # "None" /\ ~st.fs[node.file_path].exists
            THEN RunMountHook(node, i, st)
            ELSE Ret(None, st)
    IN  IF mounted.t = "raise" THEN mounted
        ELSE IF mounted.st.fs[node.file_path].exists
             THEN Ret(PyStr(mounted.st.fs[node.file_path].content), mounted.st)
             ELSE get_from_next_handler(ch, i, k, a, e, mounted.st)

\* JSONFileHandler.handle_request
JSONFileHandler_handle_request(ch, i, k, a, e, st) ==
    LET file_data == FileHandler_handle_request(ch, i, k, a, e, st) IN
    IF file_data.t = "raise" THEN file_data
    ELSE IF Truthy(file_data.v)
         THEN IF file_data.v.t # "str"
              THEN Raise("TypeError", file_data.st)
              ELSE LET json_data == JsonLoads(file_data.v.s) IN
                   IF ~json_data.ok
                   THEN Raise("JSONDecodeError", file_data.st)
                   ELSE IF k \in DOMAIN json_data.doc
                        THEN Ret(json_data.doc[k], file_data.st)
                        ELSE get_from_next_handler(ch, i, k, a, e, file_data.st)
         ELSE get_from_next_handler(ch, i, k, a, e, file_data.st)

\* DefaultHandler.handle_request
DefaultHandler_handle_request(ch, i, k, a, e, st) ==
    Ret(ch[i].default_value, st)

\* an ArgHandler that decides presence by the truth value of the field
ArgHandler_handle_request_truthy(ch, i, k, a, e, st) ==
    IF k \in DOMAIN a /\ Truthy(a[k])
    THEN Ret(a[k], st)
    ELSE get_from_next_handler(ch, i, k, a, e, st)

\* ArgHandler.handle_request
ArgHandler_handle_request(ch, i, k, a, e, st) ==
    IF k \in DOMAIN a
    THEN Ret(a[k], st)
    ELSE get_from_next_handler(ch, i, k, a, e, st)

\* EnvHandler.handle_request
EnvHandler_handle_request(ch, i, k, a, e, st) ==
    IF k \in DOMAIN e
    THEN Ret(e[k], st)
    ELSE get_from_next_handler(ch, i, k, a, e, st)

\* DictHandler.handle_request
DictHandler_handle_request(ch, i, k, a, e, st) ==
    IF k \in DOMAIN ch[i].data_dict
    THEN Ret(ch[i].data_dict[k], st)
    ELSE get_from_next_handler(ch, i, k, a, e, st)

\* dynamic dispatch of handler.handle_request(key) on node i of the chain
handle_request(ch, i, k, a, e, st) ==
    LET st1 == Enter(i, st) IN
    CASE ch[i].kind = "Default" -> DefaultHandler_handle_request(ch, i, k, a, e, st1)
      [] ch[i].kind = "Arg" -> ArgHandler_handle_request(ch, i, k, a, e, st1)
      [] ch[i].kind = "Env" -> EnvHandler_handle_request(ch, i, k, a, e, st1)
      [] ch[i].kind = "Dict" -> DictHandler_handle_request(ch, i, k, a, e, st1)
      [] ch[i].kind = "File" -> FileHandler_handle_request(ch, i, k, a, e, st1)
      [] ch[i].kind = "JSON" -> JSONFileHandler_handle_request(ch, i, k, a, e, st1)

(* ------------------------------------------------------------------ *)
(* Construction of the chain                                           *)
(* ------------------------------------------------------------------ *)
default_config == Dict1("FIXME_NAME", PyStr("fixme"))

DefaultValues == {None, PyStr("fixme"), PyStr(JsonNull)}
ArgsChoices == {EmptyDict,
                Dict1("APP_VERBOSITY", PyStr("info")),
                Dict1("APP_VERBOSITY", PyStr("")),
                Dict1("APP_VERBOSITY", None)}
EnvironChoices == {EmptyDict,
                   Dict1("APP_VERBOSITY", PyStr("warning")),
                   Dict1("APP_VERBOSITY", PyStr(""))}
DataDictChoices == {EmptyDict, default_config, Dict1("APP_VERBOSITY", PyInt(0))}
JsonFileChoices == {NoFile, File(""), File("myvalue"), File(JsonSomething)}
YamlFileChoices == {File(YamlCritical)}
InitialHeap ==
    [o \in ObjectIds |->
        CASE o = SharedDefault -> EmptyDict
          [] o = "default_config" -> default_config
          [] o = "verbosity" -> Dict1("APP_VERBOSITY", PyInt(0))]
MountHooks == {"None", "mount", "noop", "fail"}
\* with the hook that provides the file and then raises
FileMountHooks == MountHooks \cup {"mount_fail"}

Idle == [t |-> "idle", v |-> None]

\* DictHandler.__init__: the mapping the new handler holds
DictHandler_data_dict(data_dict, file_path, files) ==
    IF file_path # ""
    THEN DictMerge(data_dict, YamlSafeLoad(files[file_path].content))
    ELSE data_dict

DictHandler(data_dict, file_path, files, id) ==
    Node("Dict", None, data_dict,
         DictHandler_data_dict(data_dict, file_path, files), file_path, "None", id)

\* a constructor that merges the file into the mapping it was given
\* (self.data_dict.update(yaml_data))
DictHandler_heap_update(id, file_path, files, hp) ==
    IF file_path # ""
    THEN [hp EXCEPT ![id] = DictMerge(@, YamlSafeLoad(files[file_path].content))]
    ELSE hp

\* DictHandler.__init__: the mapping objects after the construction; the
\* merge builds a new mapping and leaves the one it was given as it is
DictHandler_heap(id, file_path, files, hp) == hp

\* self.data_dict of a DictHandler built without file is the object it was
\* given: the handler sees that object's entries as they are now
View(node, hp) ==
    IF node.kind = "Dict" /\ node.file_path = ""
    THEN [node EXCEPT !.data_dict = hp[node.dict_id]]
    ELSE node

\* Handler.__init__: the new handler becomes the head, the chain built so
\* far is its next_handler; hp is the mapping objects after the construction
ConstructIn(node, hp) ==
    /\ phase = "build"
    /\ Len(chain) < MaxChain
    /\ heap' = hp
    /\ chain' = [i \in 1..(Len(chain) + 1) |-> View((<<node>> \o chain)[i], hp)]
    /\ UNCHANGED <<args, environ, fs, fs0, phase, key, result, calls, hooks>>
    /\ UNCHANGED durVars

Construct(node) == ConstructIn(node, heap)

NewDefaultHandler == \E v \in DefaultValues : Construct(DefaultHandler(v))
NewArgHandler == Construct(ArgHandler)
NewEnvHandler == Construct(EnvHandler)
NewDictHandler ==
    \E id \in {SharedDefault, "verbosity"}, p \in {"", YamlPath, YamlPath2} :
        ConstructIn(DictHandler(heap[id], p, fs, id),
                    DictHandler_heap(id, p, fs, heap))
NewFileHandler == \E h \in FileMountHooks : Construct(FileHandler(JsonPath, h))
NewJSONFileHandler ==
    \E h \in {"None", "mount"} : Construct(JSONFileHandler(JsonPath, h))

(* ------------------------------------------------------------------ *)
(* One call on the head of the chain                                   *)
(* ------------------------------------------------------------------ *)
Call(ch, k) ==
    LET r == handle_request(ch, 1, k, args, environ, Start(fs))
    IN  /\ chain' = ch
        /\ key' = k
        /\ result' = [t |-> r.t, v |-> r.v]
        /\ fs0' = fs
        /\ fs' = r.st.fs
        /\ calls' = r.st.calls
        /\ hooks' = r.st.hooks
        /\ phase' = "done"
        /\ UNCHANGED <<args, environ, heap>>
        /\ UNCHANGED durVars

HandleRequest ==
    /\ chain # <<>>
    /\ \E k \in Keys : Call(chain, k)

\* fixme1 of fixme/__main__.py
fixme1 ==
    /\ phase = "build"
    /\ chain = <<>>
    /\ Call(<<ArgHandler, EnvHandler, DictHandler(default_config, "", fs, "default_config")>>,
            "FIXME_NAME")

\* fixme2 of fixme/__main__.py
fixme2 ==
    /\ phase = "build"
    /\ chain = <<>>
    /\ Call(<<ArgHandler, EnvHandler, DefaultHandler(PyStr("fixme"))>>,
            "FIXME_NAME")

(* ------------------------------------------------------------------ *)
(* The duration parsers                                                *)
(* ------------------------------------------------------------------ *)
Digits == {"2", "3"}
Alphabet == Digits \cup {"m", "s", "b", "\n"}

DigitVal(c) == CASE c = "2" -> 2 [] c = "3" -> 3

RECURSIVE int(_)
\* int(digits)
int(ds) ==
    IF ds = <<>> THEN 0
    ELSE 10 * int(SubSeq(ds, 1, Len(ds) - 1)) + DigitVal(ds[Len(ds)])

IsDigits(x) == Len(x) >= 1 /\ \A i \in 1..Len(x) : x[i] \in Digits

\* (\d+u)? consuming exactly x
OptPart(x, u) ==
    \/ x = <<>>
    \/ Len(x) >= 2 /\ x[Len(x)] = u /\ IsDigits(SubSeq(x, 1, Len(x) - 1))

\* $ matches at the end and before one final newline
Body(str) ==
    IF Len(str) >= 1 /\ str[Len(str)] = "\n"
    THEN {str, SubSeq(str, 1, Len(str) - 1)}
    ELSE {str}

\* re.match(r'^(\d+u1)?(\d+u2)?$', str): the two groups (each with its unit
\* letter; <<>> for a group that did not take part), or no match
Splits(str, u1, u2) ==
    {g \in UNION {{<<SubSeq(b, 1, j), SubSeq(b, j + 1, Len(b))>> : j \in 0..Len(b)}
                  : b \in Body(str)} :
        OptPart(g[1], u1) /\ OptPart(g[2], u2)}

ReMatch(str, u1, u2) ==
    IF Splits(str, u1, u2) = {}
    THEN [ok |-> FALSE, g1 |-> <<>>, g2 |-> <<>>]
    ELSE LET g == CHOOSE x \in Splits(str, u1, u2) : TRUE
         IN  [ok |-> TRUE, g1 |-> g[1], g2 |-> g[2]]

\* s[:-1]
DropLast(x) == SubSeq(x, 1, Len(x) - 1)

DurRet(n) == [t |-> "ret", v |-> PyInt(n)]
DurRaise(e) == [t |-> "raise", v |-> PyStr(e)]

\* duration_in_seconds of fixme/cli.py
cli_duration_in_seconds(str) ==
    LET m1 == ReMatch(str, "m", "s")
        m2 == ReMatch(str, "s", "m")
        tot(minutes_str, seconds_str) ==
            LET minutes == IF minutes_str # <<>> THEN int(minutes_str) ELSE 0
                seconds == IF seconds_str # <<>> THEN int(seconds_str) ELSE 0
            IN  DurRet(minutes * 60 + seconds)
    IN  IF m1.ok THEN tot(DropLast(m1.g1), DropLast(m1.g2))
        ELSE IF m2.ok THEN tot(DropLast(m2.g2), DropLast(m2.g1))
        ELSE DurRaise("ValueError")

\* duration_in_seconds of fixme/__main__.py
main_duration_in_seconds(str) ==
    LET match == ReMatch(str, "m", "s") IN
    IF ~match.ok THEN DurRaise("ValueError")
    ELSE LET minutes == IF match.g1 # <<>> THEN int(DropLast(match.g1)) ELSE 0
             seconds == IF match.g2 # <<>> THEN int(DropLast(match.g2)) ELSE 0
         IN  DurRet(minutes * 60 + seconds)

RECURSIVE SeqsUpTo(_, _)
SeqsUpTo(S, n) ==
    IF n = 0 THEN {<<>>}
    ELSE LET prev == SeqsUpTo(S, n - 1)
         IN  prev \cup {Append(x, c) : x \in prev, c \in S}

TimeStrings == SeqsUpTo(Alphabet, MaxLen)

\* SecondsDurationAction.__call__ of fixme/cli.py
CliSecondsDurationAction ==
    /\ dur_cli = Idle
    /\ dur_cli' = cli_duration_in_seconds(time_str)
    /\ UNCHANGED <<time_str, dur_main>>
    /\ UNCHANGED chainVars

\* SecondsDurationAction.__call__ of fixme/__main__.py
MainSecondsDurationAction ==
    /\ dur_main = Idle
    /\ dur_main' = main_duration_in_seconds(time_str)
    /\ UNCHANGED <<time_str, dur_cli>>
    /\ UNCHANGED chainVars

(* ------------------------------------------------------------------ *)
(* Specifications                                                      *)
(* ------------------------------------------------------------------ *)
ChainIdle ==
    /\ chain = <<>>
    /\ phase = "build"
    /\ key = ""
    /\ result = Idle
    /\ calls = <<>>
    /\ hooks = <<>>

DurIdle ==
    /\ dur_cli = Idle
    /\ dur_main = Idle

Init ==
    /\ ChainIdle
    /\ args \in ArgsChoices
    /\ environ \in EnvironChoices
    /\ \E j \in JsonFileChoices, y \in YamlFileChoices :
          fs = [p \in Paths |->
                    CASE p = JsonPath -> j
                      [] p = YamlPath -> y
                      [] p = YamlPath2 -> File(YamlName)]
    /\ fs0 = fs
    /\ heap = InitialHeap
    /\ time_str = <<>>
    /\ DurIdle

Next ==
    \/ NewDefaultHandler
    \/ NewArgHandler
    \/ NewEnvHandler
    \/ NewDictHandler
    \/ NewFileHandler
    \/ NewJSONFileHandler
    \/ HandleRequest
    \/ fixme1
    \/ fixme2

Spec == Init /\ [][Next]_vars

DurInit ==
    /\ ChainIdle
    /\ args = EmptyDict
    /\ environ = EmptyDict
    /\ fs = [p \in Paths |-> NoFile]
    /\ fs0 = fs
    /\ heap = InitialHeap
    /\ time_str \in TimeStrings
    /\ DurIdle

DurNext ==
    \/ CliSecondsDurationAction
    \/ MainSecondsDurationAction

DurSpec == DurInit /\ [][DurNext]_vars

(* ------------------------------------------------------------------ *)
(* Vocabulary of the properties                                        *)
(* ------------------------------------------------------------------ *)
Done == phase = "done"
Returned(v) == result = [t |-> "ret", v |-> v]
Raised == result.t = "raise"
NoAnswer == Returned(None)
Last == chain[Len(chain)]
Count(seq, x) == Cardinality({j \in DOMAIN seq : seq[j] = x})
InOrderOnce(n) == [i \in 1..n |-> i]
Outcome(r) == [t |-> r.t, v |-> r.v]

\* what handle_request(key) on the successor of the head gives on the file
\* system files; NoAnswer when the head has no successor
SuccessorOutcome(files) ==
    IF Len(chain) > 1
    THEN Outcome(handle_request(chain, 2, key, args, environ, Start(files)))
    ELSE [t |-> "ret", v |-> None]

\* the document a file holds, when it holds one
HoldsDocument(file) == file.exists /\ JsonLoads(file.content).ok
Document(file) == JsonLoads(file.content).doc

\* node i has no answer for the key of the call: field undefined, variable
\* unset, key not in the mapping, file absent (and no hook that provides
\* it) or key absent from the document
CannotAnswer(i) ==
    LET n == chain[i] IN
    CASE n.kind = "Default" -> FALSE
      [] n.kind = "Arg" -> key \notin DOMAIN args
      [] n.kind = "Env" -> key \notin DOMAIN environ
      [] n.kind = "Dict" -> key \notin DOMAIN n.data_dict
      [] n.kind = "File" ->
            ~fs0[n.file_path].exists /\ n.mount_hook \in {"None", "noop"}
      [] n.kind = "JSON" ->
            /\ n.mount_hook \in {"None", "noop"}
            /\ \/ ~fs0[n.file_path].exists
               \/ /\ HoldsDocument(fs0[n.file_path])
                  /\ key \notin DOMAIN Document(fs0[n.file_path])

\* node i has an answer of its own for the key of the call
CanAnswer(i) ==
    LET n == chain[i] IN
    CASE n.kind = "Default" -> TRUE
      [] n.kind = "Arg" -> key \in DOMAIN args
      [] n.kind = "Env" -> key \in DOMAIN environ
      [] n.kind = "Dict" -> key \in DOMAIN n.data_dict
      [] n.kind = "File" -> fs0[n.file_path].exists
      [] n.kind = "JSON" ->
            /\ HoldsDocument(fs0[n.file_path])
            /\ key \in DOMAIN Document(fs0[n.file_path])

LocalAnswer(i) ==
    LET n == chain[i] IN
    CASE n.kind = "Default" -> n.default_value
      [] n.kind = "Arg" -> args[key]
      [] n.kind = "Env" -> environ[key]
      [] n.kind = "Dict" -> n.data_dict[key]
      [] n.kind = "File" -> PyStr(fs0[n.file_path].content)
      [] n.kind = "JSON" -> Document(fs0[n.file_path])[key]

FirstAnswerer(f) ==
    /\ f \in 1..Len(chain)
    /\ CanAnswer(f)
    /\ \A j \in 1..(f - 1) : CannotAnswer(j)

(* ------------------------------------------------------------------ *)
(* Properties                                                          *)
(* ------------------------------------------------------------------ *)

\* C1: a call on a chain whose last node is a Default Source (holding a
\* value) never returns NoAnswer, whatever the sources before it hold.
C1_DefaultNeverNoAnswer ==
    (Done /\ Last.kind = "Default" /\ Last.default_value # None) => ~NoAnswer

\* C2: on a chain without Default Source in which no node can answer the
\* key, the call returns NoAnswer and has invoked every node exactly once,
\* in chain order.
C2_EveryNodeOnceInOrder ==
    (Done /\ \A i \in 1..Len(chain) : CannotAnswer(i))
        => NoAnswer /\ calls = InOrderOnce(Len(chain))

\* C3: first match wins: the call returns the local answer of the first
\* node, in chain order, that can answer the key, and neither a node after
\* that one nor the mount hook of such a node is run.
C3_FirstMatchWins ==
    Done => \A f \in 1..Len(chain) :
                FirstAnswerer(f) =>
                    /\ Returned(LocalAnswer(f))
                    /\ \A j \in 1..Len(calls) : calls[j] <= f
                    /\ \A j \in 1..Len(hooks) : hooks[j] <= f

\* the mapping behind an Argument, Environment or Mapping Source
Store(n) ==
    CASE n.kind = "Arg" -> args
      [] n.kind = "Env" -> environ
      [] n.kind = "Dict" -> n.data_dict

Delegated(files) ==
    /\ result = SuccessorOutcome(files)
    /\ calls[1] = 1
    /\ Len(chain) > 1 => (Len(calls) >= 2 /\ calls[2] = 2)
    /\ Len(chain) = 1 => calls = <<1>>

\* C4: an Argument, Environment or Mapping Source that defines the key
\* returns the stored value without invoking its successor, also when the
\* value is the empty string or zero (which is not NoAnswer); one that does
\* not define it invokes the successor with the same key and returns the
\* successor's result.
C4_PresenceByMembership ==
    (Done /\ chain[1].kind \in {"Arg", "Env", "Dict"}) =>
        LET store == Store(chain[1]) IN
        IF key \in DOMAIN store
        THEN /\ Returned(store[key])
             /\ calls = <<1>>
             /\ store[key] \in {PyStr(""), PyInt(0)} => ~NoAnswer
        ELSE Delegated(fs0)

C4_Witness ==
    /\ Done
    /\ Len(chain) > 1
    /\ chain[1].kind = "Arg"
    /\ key \in DOMAIN args
    /\ args[key] = PyStr("")
    /\ Returned(PyStr(""))
    /\ calls = <<1>>

\* C5: a Structured File Source whose document has the key returns the
\* field's value; when the document lacks the key, or the file does not
\* exist, it returns exactly what its successor returns (NoAnswer when it
\* has no successor).
C5_JSONAnswersOrDelegates ==
    (Done /\ chain[1].kind = "JSON") =>
        LET n == chain[1]
            file == fs0[n.file_path]
        IN  /\ (HoldsDocument(file) /\ key \in DOMAIN Document(file))
                  => Returned(Document(file)[key])
            /\ (HoldsDocument(file) /\ key \notin DOMAIN Document(file))
                  => result = SuccessorOutcome(fs0)
            /\ (~file.exists /\ n.mount_hook \in {"None", "noop"})
                  => result = SuccessorOutcome(fs0)

\* C6: one call on a Raw File Source: an absent file with a hook set has
\* the hook run exactly once; if the hook makes the file exist its whole
\* content is returned by that call, whatever the key; if the file is still
\* absent when the hook has returned the call delegates; a file that exists
\* when the call begins is returned without running the hook.
C6_RawFileMountHook ==
    (Done /\ chain[1].kind = "File") =>
        LET n == chain[1]
            file == fs0[n.file_path]
        IN  /\ (~file.exists /\ n.mount_hook # "None") => Count(hooks, 1) = 1
            /\ (~file.exists /\ n.mount_hook = "mount")
                  => Returned(PyStr(MountedText)) /\ calls = <<1>>
            /\ (~file.exists /\ n.mount_hook \in {"None", "noop"})
                  => Delegated(fs0)
            /\ file.exists
                  => /\ Count(hooks, 1) = 0
                     /\ Returned(PyStr(file.content))
                     /\ calls = <<1>>
            /\ n.mount_hook = "None" => Count(hooks, 1) = 0

C6_Witness ==
    /\ Done
    /\ chain[1].kind = "File"
    /\ chain[1].mount_hook = "mount"
    /\ ~fs0[JsonPath].exists
    /\ fs[JsonPath].exists
    /\ hooks = <<1>>
    /\ key = "FIXME_NAME"
    /\ Returned(PyStr(MountedText))

\* C7: a Mapping Source built from an initial mapping and a backing file
\* returns the file's value for a key of the file (also when the initial
\* mapping has the key), the initial mapping's value for a key only there,
\* and delegates for a key in neither.
C7_FileOverridesInitialMapping ==
    (Done /\ chain[1].kind = "Dict" /\ chain[1].file_path # "") =>
        LET n == chain[1]
            file == YamlSafeLoad(fs[n.file_path].content)
        IN  IF key \in DOMAIN file
            THEN Returned(file[key]) /\ calls = <<1>>
            ELSE IF key \in DOMAIN n.arg_dict
                 THEN Returned(n.arg_dict[key]) /\ calls = <<1>>
                 ELSE Delegated(fs0)

C7_Witness ==
    /\ Done
    /\ chain[1].kind = "Dict"
    /\ chain[1].file_path = YamlPath
    /\ key = "APP_VERBOSITY"
    /\ chain[1].arg_dict = Dict1("APP_VERBOSITY", PyInt(0))
    /\ Returned(PyStr("critical"))

\* C8: a Structured File Source whose file exists and does not hold a JSON
\* document (an empty file included) raises an error; it does not invoke
\* its successor and returns nothing.
C8_MalformedFileIsFatal ==
    (Done /\ chain[1].kind = "JSON"
          /\ fs0[chain[1].file_path].exists
          /\ ~JsonLoads(fs0[chain[1].file_path].content).ok)
        => Raised /\ calls = <<1>>

\* C10: during one call on the head, the mount hook of each File Source of
\* the chain runs at most once.
C10_HookAtMostOncePerCall ==
    Done => \A i \in 1..Len(chain) : Count(hooks, i) <= 1

\* the '<N>m' and '<N>s' parts of a string in the order u1, u2
Parts(str, u1, u2) ==
    {g \in {<<SubSeq(str, 1, j), SubSeq(str, j + 1, Len(str))>> : j \in 0..Len(str)} :
        OptPart(g[1], u1) /\ OptPart(g[2], u2)}
Amount(x) == IF x = <<>> THEN 0 ELSE int(DropLast(x))
Expected(str) ==
    IF Parts(str, "m", "s") # {}
    THEN LET g == CHOOSE x \in Parts(str, "m", "s") : TRUE
         IN  DurRet(60 * Amount(g[1]) + Amount(g[2]))
    ELSE IF Parts(str, "s", "m") # {}
    THEN LET g == CHOOSE x \in Parts(str, "s", "m") : TRUE
         IN  DurRet(60 * Amount(g[2]) + Amount(g[1]))
    ELSE DurRaise("ValueError")

\* C9: both duration_in_seconds implementations accept an optional '<N>m'
\* part and an optional '<N>s' part in either order, return 60*minutes +
\* seconds, and raise for every other string (stated for the strings that
\* have no line break).
C9_BothParsersEitherOrder ==
    (\A i \in 1..Len(time_str) : time_str[i] # "\n") =>
        /\ dur_cli # Idle => dur_cli = Expected(time_str)
        /\ dur_main # Idle => dur_main = Expected(time_str)

\* a call on a Raw File Source whose file is absent and whose hook raises
FailingHookCall ==
    /\ Done
    /\ chain[1].kind = "File"
    /\ chain[1].mount_hook \in {"fail", "mount_fail"}
    /\ ~fs0[chain[1].file_path].exists

\* C11 as claimed: the failure of the hook is not propagated; the call
\* returns the content if the file now exists and delegates otherwise.
C11_FailingHookNotSurfaced ==
    FailingHookCall =>
        IF fs[chain[1].file_path].exists
        THEN Returned(PyStr(fs[chain[1].file_path].content))
        ELSE Delegated(fs0)

\* C11 as amended: the failure of the hook is propagated to the caller of
\* handle_request; the hook has run once, the existence check is not made
\* again and the successor is not invoked.
C11_FailingHookPropagates ==
    FailingHookCall =>
        /\ result = [t |-> "raise", v |-> PyStr("OSError")]
        /\ calls = <<1>>
        /\ hooks = <<1>>
        /\ chain[1].mount_hook = "fail" => fs = fs0

C11_Witness ==
    /\ FailingHookCall
    /\ chain[1].mount_hook = "mount_fail"
    /\ fs[chain[1].file_path].exists
    /\ Len(chain) > 1
    /\ chain[2].kind = "Default"
    /\ Raised
    /\ calls = <<1>>

\* the entries of the backing file of a DictHandler; none without file
FileEntries(n) ==
    IF n.file_path # "" THEN YamlSafeLoad(fs[n.file_path].content) ELSE EmptyDict

\* C12: constructions and lookups leave every mapping object as it was, the
\* shared default of the data_dict parameter included: each Mapping Source
\* holds the entries of the mapping it was given and of its own file and
\* no others, and one built without file and without initial mapping
\* answers no key.
C12_MappingsNotMutated ==
    /\ heap = InitialHeap
    /\ \A i \in 1..Len(chain) :
          chain[i].kind = "Dict" =>
              DOMAIN chain[i].data_dict =
                  (DOMAIN InitialHeap[chain[i].dict_id]) \cup (DOMAIN FileEntries(chain[i]))
    /\ (Done /\ chain[1].kind = "Dict" /\ chain[1].dict_id = SharedDefault
             /\ chain[1].file_path = "")
          => Delegated(fs0)

C12_Witness ==
    /\ Done
    /\ Len(chain) = 2
    /\ chain[1].kind = "Dict" /\ chain[1].file_path = ""
    /\ chain[2].kind = "Dict" /\ chain[2].file_path = YamlPath2
    /\ chain[1].dict_id = SharedDefault
    /\ chain[2].dict_id = SharedDefault
    /\ key = "FIXME_NAME"
    /\ calls = <<1, 2>>
    /\ Returned(PyStr("other"))

====
